---------------------------- MODULE Spec2Model ----------------------------
(* A model of qpageview's PDF backend (qpageview/pdf.py) and of its CUPS   *)
(* printing helper (qpageview/cupsprinter.py).                              *)
(*                                                                          *)
(* Python values: None, False and objects are records with a "py" field   *)
(* naming their type; a str is a sequence of one-character strings where   *)
(* the code looks inside it (file names, titles) and a TLA+ string where   *)
(* it is only passed on (messages, option values); a list is a sequence;   *)
(* a dict is a function.                                                   *)
EXTENDS Integers, Sequences, FiniteSets, TLC

VARIABLES
    \* ---- pdf.py: rendering threads and the per-document locks
    pc,         \* pc[t]: where thread t is inside PdfRenderer._render_image
    job,        \* job[t]: the (doc, pageNum, paperColor) thread t renders
    held,       \* the locks of locking.lock() that are held: {<<key, thread>>}
    \* ---- cupsprinter.py: one Handle and the print server behind it
    hkind,      \* class of the handle: "Handle", "IppHandle" or "CmdHandle"
    self,       \* the handle's attributes: _printer, and status, error once set
    call,       \* the most recent printFiles call: arguments, backend use, result
    queue,      \* the jobs the CUPS server accepted, oldest first
    \* ---- cupsprinter.py: handle()
    hres,       \* the most recent handle() call: environment, calls made, result
    \* ---- pdf.py: PdfDocument and load()
    source,     \* SingleSourceDocument's source
    document_,  \* PdfDocument._document
    ldres,      \* the most recent load()/document()/PdfPage.load() call
    \* ---- cupsprinter.py: the printer's CUPS option list (property 0xfe00)
    opts,       \* the list stored in the print engine
    optsIn,     \* the list as it was before the most recent clearPageSetSetting
    cleared,    \* TRUE once clearPageSetSetting has run on opts
    \* ---- pdf.py: PdfPage.loadDocument
    pgres,      \* the most recent loadDocument call: arguments and pages yielded
    \* ---- pdf.py: PdfRenderer.draw
    drres,      \* the most recent draw call: arguments and what it computed
    \* ---- pdf.py: the module's link cache
    linkscache  \* _linkscache: the <<document, pageNumber>> whose links are stored

renderVars == <<pc, job, held>>
printVars  == <<hkind, self, call, queue>>
handleVars == <<hres>>
loadVars   == <<source, document_, ldres>>
optVars    == <<opts, optsIn, cleared>>
pageVars   == <<pgres>>
drawVars   == <<drres>>
linkVars   == <<linkscache>>
vars == <<pc, job, held, hkind, self, call, queue, hres,
          source, document_, ldres, opts, optsIn, cleared, pgres,
          drres, linkscache>>

\* Python's None and False.
NoneV  == [py |-> "None"]
FalseV == [py |-> "False"]

(***************************************************************************)
(* Bounds of the model.                                                    *)
(***************************************************************************)
NumThreads == 3     \* rendering threads
NumDocs    == 2     \* QPdfDocument handles
NumPages   == 2     \* pages per document
MaxFiles   == 2     \* longest filename list given to printFiles
MaxQueue   == 2     \* printFiles is called while the server holds fewer jobs
MaxTitleFiles == 6  \* longest filename list a job title is computed from
MaxOptLen  == 4     \* longest CUPS option list of the print engine
MaxPageCount == 3   \* most pages of a document given to loadDocument
MaxSliceIndex == 4  \* largest start and stop of a pageSlice, either sign
MaxStep    == 2     \* largest step of a pageSlice, either sign
MaxKeyExtent == 5   \* largest width and height of a render key, in pixels
MaxPageExtent == 3  \* largest page width and height, in points
MaxScale   == 2     \* largest scale factor of the painter's device transform
NumClients == 2     \* threads that render, read text and read links

Threads == 1..NumThreads
Docs    == 1..NumDocs
PageNums == 0..(NumPages - 1)


(***************************************************************************)
(* pdf.py: PdfPage, the per-document lock and PdfRenderer._render_image.   *)
(***************************************************************************)
\* The PdfPage objects: a document handle and a page number in it.
PdfPage == [document : Docs, pageNumber : PageNums]

\* PdfPage.mutex(): the object that is locked for rendering the page.
mutex(page) == page.document

\* The object _render_image(doc, pageNum, ...) passes to locking.lock().
RenderLockKey_PerPageNum(doc, pageNum) == pageNum
RenderLockKey(doc, pageNum) == doc

\* locking.lock(item): one reentrant lock per item; `with` blocks until the
\* lock is free or already held by the calling thread.
LockAvailable(key, t) == \A h \in held : h[1] = key => h[2] = t
LockAcquire(key, t) == held \cup {<<key, t>>}
LockRelease(key, t) == held \ {<<key, t>>}

\* The page a thread's job is about (the page PdfRenderer.draw was given).
PageOf(j) == [document |-> j.doc, pageNumber |-> j.pageNum]
KeyOf(t) == RenderLockKey(job[t].doc, job[t].pageNum)

\* PdfRenderer.draw(page, ...): takes doc and num from the page and calls
\* _render_image(doc, num, ...); the thread now waits for the lock.
Draw(t, page) ==
    /\ pc[t] = "idle"
    /\ job' = [job EXCEPT ![t] = [doc |-> page.document,
                                  pageNum |-> page.pageNumber]]
    /\ pc' = [pc EXCEPT ![t] = "lock"]
    /\ UNCHANGED <<held, printVars, handleVars, loadVars, optVars, pageVars,
                   drawVars, linkVars>>

\* `with locking.lock(doc):` is entered, the render options are built and
\* doc.render(pageNum, QSize(w, h), options) is called.
Acquire(t) ==
    /\ pc[t] = "lock"
    /\ LockAvailable(KeyOf(t), t)
    /\ held' = LockAcquire(KeyOf(t), t)
    /\ pc' = [pc EXCEPT ![t] = "render"]
    /\ UNCHANGED <<job, printVars, handleVars, loadVars, optVars, pageVars,
                   drawVars, linkVars>>

\* doc.render returns the image. With a paperColor the page background is
\* painted next, still inside the with block.
RenderEndPaint(t) ==
    /\ pc[t] = "render"
    /\ pc' = [pc EXCEPT ![t] = "paint"]
    /\ UNCHANGED <<job, held, printVars, handleVars, loadVars, optVars,
                   pageVars, drawVars, linkVars>>

\* `return image` leaves the with block and the lock is released: right
\* after doc.render when no paperColor was given, else after the painting.
Return(t) ==
    /\ pc[t] \in {"render", "paint"}
    /\ held' = LockRelease(KeyOf(t), t)
    /\ pc' = [pc EXCEPT ![t] = "idle"]
    /\ job' = [job EXCEPT ![t] = NoneV]
    /\ UNCHANGED <<printVars, handleVars, loadVars, optVars, pageVars,
                   drawVars, linkVars>>

RenderNext ==
    \/ \E t \in Threads, page \in PdfPage : Draw(t, page)
    \/ \E t \in Threads : Acquire(t)
    \/ \E t \in Threads : RenderEndPaint(t)
    \/ \E t \in Threads : Return(t)

(***************************************************************************)
(* pdf.py: PdfPage.text and PdfPage.links, called from the same threads.   *)
(* pc "textLock": text() waits at its with statement; "getSelection": the  *)
(* document's getSelection(...).text() runs; "linksLock": links() missed   *)
(* the cache and waits at its with statement; "linkModel": the link model  *)
(* is made and read; "linksStore": the with block was left, the links are  *)
(* about to be stored; "linksCached": the cache had the links.             *)
(***************************************************************************)
\* The object text() passes to locking.lock(): self.document.
TextLockKey_PerPageNum(document, pageNumber) == pageNumber
TextLockKey(document, pageNumber) == document

\* The object links() passes to locking.lock(): document.
LinksLockKey(document, pageNumber) == document

\* The lock thread t waits for or holds, by the method it is in.
LockKeyOf(t) ==
    CASE pc[t] \in {"lock", "render", "paint"} -> KeyOf(t)
      [] pc[t] \in {"textLock", "getSelection"} ->
            TextLockKey(job[t].doc, job[t].pageNum)
      [] pc[t] \in {"linksLock", "linkModel"} ->
            LinksLockKey(job[t].doc, job[t].pageNum)

\* page.text(rect): the rectangle is mapped, then the thread waits for the
\* lock of self.document.
Text(t, page) ==
    /\ pc[t] = "idle"
    /\ job' = [job EXCEPT ![t] = [doc |-> page.document,
                                  pageNum |-> page.pageNumber]]
    /\ pc' = [pc EXCEPT ![t] = "textLock"]
    /\ UNCHANGED <<held, printVars, handleVars, loadVars, optVars, pageVars,
                   drawVars, linkVars>>

\* `with locking.lock(self.document):` is entered and
\* self.document.getSelection(...).text() is called.
TextAcquire(t) ==
    /\ pc[t] = "textLock"
    /\ LockAvailable(LockKeyOf(t), t)
    /\ held' = LockAcquire(LockKeyOf(t), t)
    /\ pc' = [pc EXCEPT ![t] = "getSelection"]
    /\ UNCHANGED <<job, printVars, handleVars, loadVars, optVars, pageVars,
                   drawVars, linkVars>>

\* The text is returned: the with block is left and the lock released.
TextReturn(t) ==
    /\ pc[t] = "getSelection"
    /\ held' = LockRelease(LockKeyOf(t), t)
    /\ pc' = [pc EXCEPT ![t] = "idle"]
    /\ job' = [job EXCEPT ![t] = NoneV]
    /\ UNCHANGED <<printVars, handleVars, loadVars, optVars, pageVars,
                   drawVars, linkVars>>

\* page.links(): _linkscache[document][pageNumber] is tried first; on a
\* KeyError the thread goes on to the with statement.
Links(t, page) ==
    /\ pc[t] = "idle"
    /\ job' = [job EXCEPT ![t] = [doc |-> page.document,
                                  pageNum |-> page.pageNumber]]
    /\ pc' = [pc EXCEPT ![t] =
                IF <<page.document, page.pageNumber>> \in linkscache
                THEN "linksCached" ELSE "linksLock"]
    /\ UNCHANGED <<held, printVars, handleVars, loadVars, optVars, pageVars,
                   drawVars, linkVars>>

\* `with locking.lock(document):` is entered; QPdfLinkModel(document, page)
\* is made and its rows are read into Link objects.
LinksAcquire(t) ==
    /\ pc[t] = "linksLock"
    /\ LockAvailable(LockKeyOf(t), t)
    /\ held' = LockAcquire(LockKeyOf(t), t)
    /\ pc' = [pc EXCEPT ![t] = "linkModel"]
    /\ UNCHANGED <<job, printVars, handleVars, loadVars, optVars, pageVars,
                   drawVars, linkVars>>

\* links = link.Links(links) ends the with block: the lock is released.
LinksRelease(t) ==
    /\ pc[t] = "linkModel"
    /\ held' = LockRelease(LockKeyOf(t), t)
    /\ pc' = [pc EXCEPT ![t] = "linksStore"]
    /\ UNCHANGED <<job, printVars, handleVars, loadVars, optVars, pageVars,
                   drawVars, linkVars>>

\* _linkscache.setdefault(document, {})[pageNumber] = links; return links.
LinksStore(t) ==
    /\ pc[t] = "linksStore"
    /\ linkscache' = linkscache \cup {<<job[t].doc, job[t].pageNum>>}
    /\ pc' = [pc EXCEPT ![t] = "idle"]
    /\ job' = [job EXCEPT ![t] = NoneV]
    /\ UNCHANGED <<held, printVars, handleVars, loadVars, optVars, pageVars,
                   drawVars>>

\* return _linkscache[document][pageNumber]: no lock is taken.
LinksCached(t) ==
    /\ pc[t] = "linksCached"
    /\ pc' = [pc EXCEPT ![t] = "idle"]
    /\ job' = [job EXCEPT ![t] = NoneV]
    /\ UNCHANGED <<held, printVars, handleVars, loadVars, optVars, pageVars,
                   drawVars, linkVars>>

\* Leaving a with block: what a thread inside one does next.
Leave(t) ==
    RenderEndPaint(t) \/ Return(t) \/ TextReturn(t) \/ LinksRelease(t)

(***************************************************************************)
(* pdf.py: PdfRenderer.draw. Rectangles start at the origin and are        *)
(* modelled by their size; a QTransform by its four matrix elements.       *)
(***************************************************************************)
\* PdfRenderer.oversampleThreshold: DPI of a standard PC screen.
oversampleThreshold == 96

Abs(x) == IF x < 0 THEN 0 - x ELSE x

\* QSizeF(w, h) and QSizeF.transposed().
QSizeF(w, h) == [w |-> w, h |-> h]
transposed(size) == [w |-> size.h, h |-> size.w]

\* painter.deviceTransform() of a painter that is "already at the right
\* rotation": turned by `rotation` quarter turns, then scaled to the device
\* by sx and sy. A point maps to (m11*x + m21*y, m12*x + m22*y).
deviceTransform(rotation, sx, sy) ==
    LET cos == <<1, 0, -1, 0>>[(rotation % 4) + 1]
        sin == <<0, 1, 0, -1>>[(rotation % 4) + 1]
    IN  [m11 |-> sx * cos, m12 |-> sy * sin,
         m21 |-> 0 - sx * sin, m22 |-> sy * cos]

\* QTransform.scale(sx, sy).
scale(matrix, sx, sy) ==
    [m11 |-> matrix.m11 * sx, m12 |-> matrix.m12 * sx,
     m21 |-> matrix.m21 * sy, m22 |-> matrix.m22 * sy]

\* QTransform.mapRect(rect): the size of the bounding rectangle.
mapRect(matrix, size) ==
    [w |-> Abs(matrix.m11) * size.w + Abs(matrix.m21) * size.h,
     h |-> Abs(matrix.m12) * size.w + Abs(matrix.m22) * size.h]

\* 2 if 72.0 * extent / pageExtent < oversampleThreshold else 1, at actual
\* size; 1 otherwise. For pageExtent > 0 the quotient is below the threshold
\* exactly when 72 * extent < oversampleThreshold * pageExtent.
Multiplier_AtThreshold(actualSize, extent, pageExtent) ==
    IF actualSize
    THEN IF 72 * extent <= oversampleThreshold * pageExtent THEN 2 ELSE 1
    ELSE 1
Multiplier(actualSize, extent, pageExtent) ==
    IF actualSize
    THEN IF 72 * extent < oversampleThreshold * pageExtent THEN 2 ELSE 1
    ELSE 1

\* PdfRenderer.draw(page, painter, key, tile): what it computes. pageSize0 is
\* page.pageSize(), key is (rotation, width, height), tile is <<x, y, w, h>>,
\* matrix0 is painter.deviceTransform().
draw(pageSize0, key, tile, matrix0) ==
    LET odd        == key.rotation % 2 = 1          \* key.rotation & 1
        sourceRect == QSizeF(key.width, key.height)   \* source
        target0    == QSizeF(tile[3], tile[4])
        pageSize   == IF odd THEN transposed(pageSize0) ELSE pageSize0
        target     == IF odd THEN transposed(target0) ELSE target0
        vscale     == matrix0.m11
        hscale     == matrix0.m22
        actualSize == vscale = hscale /\ hscale = 1
        xMultiplier == Multiplier(actualSize, key.width, pageSize.w)
        yMultiplier == Multiplier(actualSize, key.height, pageSize.h)
        matrix     == scale(matrix0, xMultiplier, yMultiplier)
        s          == mapRect(matrix, sourceRect)
        rendered   == QSizeF(s.w, s.h)      \* doc.render(num, QSize(w, h))
        cropped    == IF tile # <<0, 0, key.width, key.height>>
                      THEN mapRect(matrix, target0)     \* image.copy(...)
                      ELSE rendered
        scaled     == actualSize /\ cropped # target
        image      == IF scaled THEN QSizeF(target.w, target.h) ELSE cropped
    IN  [pageSize |-> pageSize, target |-> target, actualSize |-> actualSize,
         xMultiplier |-> xMultiplier, yMultiplier |-> yMultiplier,
         rendered |-> rendered, cropped |-> cropped, scaled |-> scaled,
         image |-> image]

\* One call of draw: drres keeps the arguments and what was computed.
DrawTile(pageSize0, key, tile, matrix0) ==
    /\ drres' = [pageSize |-> pageSize0, key |-> key, tile |-> tile,
                 matrix |-> matrix0,
                 result |-> draw(pageSize0, key, tile, matrix0)]
    /\ UNCHANGED <<renderVars, printVars, handleVars, loadVars, optVars,
                   pageVars, linkVars>>

(***************************************************************************)
(* Python built-ins the printing code uses, on strings that are sequences  *)
(* of one-character strings.                                               *)
(***************************************************************************)
Min(a, b) == IF a < b THEN a ELSE b

\* bool(v) of the values the code tests with `if v:` / `if not v:`.
Truthy(v) ==
    CASE v.py = "None"  -> FALSE
      [] v.py = "False" -> FALSE
      [] v.py = "str"   -> Len(v.s) > 0
      [] v.py = "dict"  -> DOMAIN v.d # {}
      [] OTHER          -> TRUE

\* A str and a dict as values that may also be None.
Str(s)  == [py |-> "str", s |-> s]
Dict(d) == [py |-> "dict", d |-> d]

\* p.rfind(ch) + 1: the position after the last ch, 0 when there is none.
RFind(p, ch) ==
    LET hits == {i \in 1..Len(p) : p[i] = ch}
    IN  IF hits = {} THEN 0 ELSE CHOOSE i \in hits : \A j \in hits : j <= i

\* os.path.basename (posixpath): what follows the last "/".
basename(p) == SubSeq(p, RFind(p, "/") + 1, Len(p))

\* str.isspace(): not empty and whitespace only (" " is the model's only one).
isspace(f) == Len(f) > 0 /\ \A i \in 1..Len(f) : f[i] = " "

\* "{0}".format(n) for an integer n >= 0: its decimal digits.
Digit(d) == <<"0", "1", "2", "3", "4", "5", "6", "7", "8", "9">>[d + 1]
RECURSIVE format(_)
format(n) == IF n < 10 THEN <<Digit(n)>>
             ELSE format(n \div 10) \o <<Digit(n % 10)>>

\* sep.join(items)
RECURSIVE join(_, _)
join(sep, items) ==
    IF Len(items) = 0 THEN <<>>
    ELSE IF Len(items) = 1 THEN items[1]
    ELSE items[1] \o sep \o join(sep, Tail(items))

\* bytes.decode('UTF-8', 'replace') for bytes below 0xE0 and the bytes that
\* can start no sequence: ASCII is kept, a two-byte sequence gives its code
\* point, every byte that cannot be decoded gives U+FFFD (65533).
RECURSIVE decode(_)
decode(b) ==
    IF Len(b) = 0 THEN <<>>
    ELSE IF b[1] < 128 THEN <<b[1]>> \o decode(Tail(b))
    ELSE IF b[1] >= 194 /\ b[1] <= 223 /\ Len(b) >= 2
            /\ b[2] >= 128 /\ b[2] <= 191
         THEN <<(b[1] - 192) * 64 + (b[2] - 128)>> \o decode(Tail(Tail(b)))
    ELSE <<65533>> \o decode(Tail(b))

(***************************************************************************)
(* cupsprinter.py: Handle, CmdHandle, IppHandle.                           *)
(***************************************************************************)
\* QPrinter(): the default printer object Handle.printer() creates.
DefaultQPrinter ==
    [py |-> "QPrinter", name |-> "default", cups |-> [copies |-> "1"]]

\* Handle.printer(): the QPrinter given on init, or a new default QPrinter.
printer(slf) == IF slf._printer = NoneV THEN DefaultQPrinter ELSE slf._printer

\* options(printer): the dict of CUPS options read from the QPrinter object;
\* the printer objects of the model carry that dict.
options(pr) == pr.cups

\* dict.update: o.update(extra)
update(o, extra) ==
    [k \in DOMAIN o \cup DOMAIN extra |->
        IF k \in DOMAIN extra THEN extra[k] ELSE o[k]]

\* Handle.title(filenames): a job title from the list of filenames.
maxlen == 5
title_NoMore(filenames) ==
    join(<<",", " ">>,
         [i \in 1..Min(maxlen, Len(filenames)) |-> basename(filenames[i])])
title(filenames) ==
    LET first == SubSeq(filenames, 1, Min(maxlen, Len(filenames)))
        titles == [i \in 1..Len(first) |-> basename(first[i])]
        more == Len(filenames) - maxlen
        all == IF more > 0
               THEN Append(titles, <<"(", "+">> \o format(more)
                                   \o <<" ", "m", "o", "r", "e", ")">>)
               ELSE titles
    IN  join(<<",", " ">>, all)

\* The test printFiles makes of every filename.
ValidName(f) == Len(f) > 0 /\ ~isspace(f) /\ f # <<"-">>

\* Handle._doPrintFiles: the base class prints nothing and reports success.
HandleDoPrintFiles(q) ==
    [status |-> 0, error |-> "", queue |-> q, attempts |-> <<>>]

\* CmdHandle._doPrintFiles: run the lp command. env is what happens when the
\* process is started: an OSError, or a process that ends with a return code
\* and bytes on standard error. A job the command submits is not modelled.
CmdDoPrintFiles_IgnoreLaunchError(env, q) ==
    IF env.launch = "OSError"
    THEN [status |-> 0, error |-> env.strerror, queue |-> q, attempts |-> <<>>]
    ELSE [status |-> env.returncode, error |-> decode(env.stderr),
          queue |-> q, attempts |-> <<>>]
CmdDoPrintFiles(env, q) ==
    IF env.launch = "OSError"
    THEN [status |-> env.errno, error |-> env.strerror,
          queue |-> q, attempts |-> <<>>]
    ELSE [status |-> env.returncode, error |-> decode(env.stderr),
          queue |-> q, attempts |-> <<>>]

\* IppHandle._doPrintFiles: connection.printFile() for every file in turn;
\* env[i] is what the server answers to the i-th submission: it accepts the
\* job, or printFile raises IPPError(status, message).
RECURSIVE IppSubmit(_, _, _, _, _)
IppSubmit(i, filenames, env, q, att) ==
    IF i > Len(filenames)
    THEN [status |-> 0, error |-> "", queue |-> q, attempts |-> att]
    ELSE IF env[i].ok
    THEN IppSubmit(i + 1, filenames, env, Append(q, filenames[i]),
                   Append(att, i))
    ELSE [status |-> env[i].status, error |-> env[i].message,
          queue |-> q, attempts |-> Append(att, i)]

RECURSIVE IppSubmit_KeepGoing(_, _, _, _, _, _)
IppSubmit_KeepGoing(i, filenames, env, q, att, res) ==
    IF i > Len(filenames)
    THEN [status |-> res[1], error |-> res[2], queue |-> q, attempts |-> att]
    ELSE IF env[i].ok
    THEN IppSubmit_KeepGoing(i + 1, filenames, env, Append(q, filenames[i]),
                             Append(att, i), res)
    ELSE IppSubmit_KeepGoing(i + 1, filenames, env, q, Append(att, i),
                             <<env[i].status, env[i].message>>)

IppDoPrintFiles_KeepGoing(filenames, env, q) ==
    IppSubmit_KeepGoing(1, filenames, env, q, <<>>, <<0, "">>)
IppDoPrintFiles(filenames, env, q) == IppSubmit(1, filenames, env, q, <<>>)

\* self._doPrintFiles(printerName, filenames, title, o) of the handle's class.
DoPrintFiles(kind, filenames, env, q) ==
    CASE kind = "IppHandle" -> IppDoPrintFiles(filenames, env, q)
      [] kind = "CmdHandle" -> CmdDoPrintFiles(env, q)
      [] OTHER              -> HandleDoPrintFiles(q)


\* Handle.printFiles(filenames, title, options): what the call does to the
\* handle and to the server, for a handle of class kind with attributes slf.
\* _printer is the handle's printer after the call (printer() creates it).
PrintFilesResult_StaleOnInvalid(kind, slf, filenames, titleArg, optionsArg, env, q) ==
    IF Len(filenames) > 0 /\ \A i \in 1..Len(filenames) : ValidName(filenames[i])
    THEN LET r == DoPrintFiles(kind, filenames, env, q)
         IN  [status |-> r.status, error |-> r.error, queue |-> r.queue,
              attempts |-> r.attempts, backendCalls |-> 1, env |-> env,
              _printer |-> printer(slf),
              passed |-> [printerName |-> printer(slf).name,
                          title |-> IF ~Truthy(titleArg)
                                    THEN Str(title(filenames)) ELSE titleArg,
                          options |-> IF Truthy(optionsArg)
                                      THEN update(options(printer(slf)), optionsArg.d)
                                      ELSE options(printer(slf))]]
    ELSE [status |-> IF "status" \in DOMAIN slf THEN slf.status ELSE 2,
          error |-> IF "error" \in DOMAIN slf THEN slf.error
                    ELSE "No filenames specified",
          queue |-> q, attempts |-> <<>>, backendCalls |-> 0, env |-> NoneV,
          _printer |-> slf._printer, passed |-> NoneV]
PrintFilesResult(kind, slf, filenames, titleArg, optionsArg, env, q) ==
    IF Len(filenames) > 0
    THEN IF \A i \in 1..Len(filenames) : ValidName(filenames[i])
         THEN LET t == IF ~Truthy(titleArg) THEN Str(title(filenames))
                       ELSE titleArg
                  pr == printer(slf)
                  o == IF Truthy(optionsArg)
                       THEN update(options(pr), optionsArg.d)
                       ELSE options(pr)
                  printerName == pr.name
                  r == DoPrintFiles(kind, filenames, env, q)
              IN  [status |-> r.status, error |-> r.error, queue |-> r.queue,
                   attempts |-> r.attempts, backendCalls |-> 1, env |-> env,
                   _printer |-> pr,
                   passed |-> [printerName |-> printerName, title |-> t,
                               options |-> o]]
         ELSE [status |-> 2, error |-> "Not a valid filename", queue |-> q,
               attempts |-> <<>>, backendCalls |-> 0, env |-> NoneV,
               _printer |-> slf._printer, passed |-> NoneV]
    ELSE [status |-> 2, error |-> "No filenames specified", queue |-> q,
          attempts |-> <<>>, backendCalls |-> 0, env |-> NoneV,
          _printer |-> slf._printer, passed |-> NoneV]

\* `return self.status == 0`
Succeeded(st) == st = 0

\* The printFiles call as a step: the handle's status and error attributes
\* are assigned, the server's queue grows by the accepted jobs, and `call`
\* keeps the arguments, what the backend was given and what was returned.
PrintFilesStep(op, filenames, titleArg, optionsArg, env) ==
    \E r \in {PrintFilesResult(hkind, self, filenames, titleArg, optionsArg,
                                env, queue)} :
        /\ self' = [_printer |-> r._printer, status |-> r.status,
                    error |-> r.error]
        /\ queue' = r.queue
        /\ call' = [op |-> op, filenames |-> filenames, title |-> titleArg,
                    options |-> optionsArg, env |-> r.env,
                    backendCalls |-> r.backendCalls, passed |-> r.passed,
                    attempts |-> r.attempts, queueBefore |-> queue,
                    returned |-> Succeeded(r.status)]
        /\ UNCHANGED <<hkind, renderVars, handleVars, loadVars, optVars,
                       pageVars, drawVars, linkVars>>

PrintFiles(filenames, titleArg, optionsArg, env) ==
    PrintFilesStep("printFiles", filenames, titleArg, optionsArg, env)

\* Handle.printFile(filename, title, options): printFiles([filename], ...)
PrintFile(filename, titleArg, optionsArg, env) ==
    PrintFilesStep("printFile", <<filename>>, titleArg, optionsArg, env)


(***************************************************************************)
(* cupsprinter.py: IppHandle.create, CmdHandle.create and handle().        *)
(* env is the system the call runs on: whether `import cups` succeeds,     *)
(* whether cups.Connection() connects, the printers the server knows       *)
(* (c.getPrinters()) and what shutil.which finds for the lp command.       *)
(***************************************************************************)
\* IppHandle.create(printer, server, port, user): a handle, or None.
IppHandleCreate(pr, server, port, user, env) ==
    IF ~env.cups THEN NoneV                 \* ImportError
    ELSE IF ~env.connects THEN NoneV        \* RuntimeError
    ELSE LET h == [py |-> "IppHandle", _connection |-> "c",
                   _printer |-> printer([_printer |-> pr])]
         IN  IF h._printer.name \in env.printers THEN h ELSE NoneV

\* CmdHandle.create(printer, server, port, user, cmd="lp"): a handle, or None.
CmdHandleCreate(pr, server, port, user, env) ==
    LET cmd == env.which
    IN  IF Truthy(cmd)
        THEN [py |-> "CmdHandle", _command |-> cmd, _server |-> server,
              _port |-> port, _user |-> user, _printer |-> pr]
        ELSE NoneV

\* handle(printer, server, port, user): IppHandle.create(...) or
\* CmdHandle.create(...). `tried` lists the create methods that were called.
handle_CmdFirst(pr, server, port, user, env) ==
    LET c == CmdHandleCreate(pr, server, port, user, env)
    IN  IF Truthy(c)
        THEN [result |-> c, tried |-> <<"CmdHandle.create">>]
        ELSE [result |-> IppHandleCreate(pr, server, port, user, env),
              tried |-> <<"CmdHandle.create", "IppHandle.create">>]
handle(pr, server, port, user, env) ==
    LET i == IppHandleCreate(pr, server, port, user, env)
    IN  IF Truthy(i)
        THEN [result |-> i, tried |-> <<"IppHandle.create">>]
        ELSE [result |-> CmdHandleCreate(pr, server, port, user, env),
              tried |-> <<"IppHandle.create", "CmdHandle.create">>]

\* A call of handle() as a step; hres keeps its arguments, the system it ran
\* on and what it returned.
HandleCall(pr, server, port, user, env) ==
    /\ \E r \in {handle(pr, server, port, user, env)} :
          hres' = [printer |-> pr, server |-> server, port |-> port,
                   user |-> user, env |-> env, result |-> r.result,
                   tried |-> r.tried]
    /\ UNCHANGED <<renderVars, printVars, loadVars, optVars, pageVars,
                   drawVars, linkVars>>

(***************************************************************************)
(* cupsprinter.py: clearPageSetSetting. o is the list the print engine     *)
(* holds as property 0xfe00: key, value, key, value, ...                   *)
(***************************************************************************)
\* list.index(x), counted from 0; the caller has checked that x occurs.
index(o, x) ==
    (CHOOSE i \in 1..Len(o) : o[i] = x /\ \A j \in 1..(i - 1) : o[j] # x) - 1

\* The list the print engine holds after clearPageSetSetting(printer).
clearPageSetSetting(o) ==
    IF Len(o) > 0 /\ Len(o) % 2 = 0
    THEN IF \A j \in 1..Len(o) : o[j] # "page-set"
         THEN o                                      \* ValueError: return
         ELSE LET i == index(o, "page-set")
              IN  IF i % 2 = 0
                  THEN SubSeq(o, 1, i) \o SubSeq(o, i + 3, Len(o))
                  ELSE o
    ELSE o

ClearPageSetSetting ==
    /\ optsIn' = opts
    /\ opts' = clearPageSetSetting(opts)
    /\ cleared' = TRUE
    /\ UNCHANGED <<renderVars, printVars, handleVars, loadVars, pageVars,
                   drawVars, linkVars>>

(***************************************************************************)
(* pdf.py: range(pageCount)[pageSlice] and PdfPage.loadDocument.           *)
(***************************************************************************)
\* An int and a slice object; start, stop and step are None or an int.
PyInt(v) == [py |-> "int", v |-> v]
slice(start, stop, step) ==
    [py |-> "slice", start |-> start, stop |-> stop, step |-> step]

\* range(n), and len() and the items of a range object.
range(n) == [start |-> 0, stop |-> n, step |-> 1]
RangeLen(r) ==
    IF r.step > 0 /\ r.start < r.stop
    THEN 1 + (r.stop - 1 - r.start) \div r.step
    ELSE IF r.step < 0 /\ r.start > r.stop
    THEN 1 + (r.start - 1 - r.stop) \div (0 - r.step)
    ELSE 0
RangeItems(r) == [i \in 1..RangeLen(r) |-> r.start + (i - 1) * r.step]

\* slice.indices(length) for a step that is not 0: negative indices count
\* from the end and all are clamped to the sequence.
SliceIndices_Raw(sl, length) ==
    [start |-> IF sl.start = NoneV THEN 0 ELSE sl.start.v,
     stop  |-> IF sl.stop = NoneV THEN length ELSE sl.stop.v,
     step  |-> IF sl.step = NoneV THEN 1 ELSE sl.step.v]
SliceIndices(sl, length) ==
    LET step  == IF sl.step = NoneV THEN 1 ELSE sl.step.v
        lower == IF step < 0 THEN -1 ELSE 0
        upper == IF step < 0 THEN length - 1 ELSE length
        Clamp(x) == IF x < 0
                    THEN (IF x + length < lower THEN lower ELSE x + length)
                    ELSE (IF x > upper THEN upper ELSE x)
    IN  [start |-> IF sl.start = NoneV
                   THEN (IF step < 0 THEN upper ELSE lower)
                   ELSE Clamp(sl.start.v),
         stop  |-> IF sl.stop = NoneV
                   THEN (IF step < 0 THEN lower ELSE upper)
                   ELSE Clamp(sl.stop.v),
         step  |-> step]

\* r[sl]: the range object a slice of a range is.
RangeGetSlice(r, sl) ==
    LET ix == SliceIndices(sl, RangeLen(r))
    IN  [start |-> r.start + ix.start * r.step,
         stop  |-> r.start + ix.stop * r.step,
         step  |-> r.step * ix.step]

\* PdfPage.loadDocument(document, renderer, pageSlice): the pages the
\* generator yields, or the exception it ends with (a slice step of 0).
loadDocument(document, pageSlice) ==
    IF pageSlice # NoneV /\ pageSlice.step = PyInt(0)
    THEN [raised |-> "ValueError", pages |-> <<>>]
    ELSE LET it == IF pageSlice # NoneV
                   THEN RangeGetSlice(range(document.pageCount), pageSlice)
                   ELSE range(document.pageCount)
         IN  [raised |-> "",
              pages |-> [i \in 1..RangeLen(it) |->
                            [document |-> document,
                             pageNumber |-> RangeItems(it)[i]]]]

LoadDocument(document, pageSlice) ==
    /\ \E r \in {loadDocument(document, pageSlice)} :
          pgres' = [document |-> document, pageSlice |-> pageSlice,
                    raised |-> r.raised, pages |-> r.pages]
    /\ UNCHANGED <<renderVars, printVars, handleVars, loadVars, optVars,
                   drawVars, linkVars>>

(***************************************************************************)
(* pdf.py: load(), PdfPage.load and PdfDocument.document().                *)
(***************************************************************************)
\* QPdfDocument(QCoreApplication.instance()): a new, empty document object.
QPdfDocumentNew ==
    [py |-> "QPdfDocument", id |-> "new", status |-> "Null", pageCount |-> 0]

\* QPdfDocument.load(fileName) on a new document: the file "g" is a PDF of
\* NumPages pages, any other file cannot be loaded.
QPdfLoad(doc, fileName) ==
    IF fileName = <<"g">>
    THEN [doc EXCEPT !.status = "Ready", !.pageCount = NumPages]
    ELSE [doc EXCEPT !.status = "Error"]

\* load(source): the value returned, or the exception raised. pdf.py does
\* not import QByteArray, so evaluating isinstance(source, QByteArray), which
\* happens for every source that is neither a QPdfDocument nor a str, raises
\* NameError.
load(src) ==
    IF src.py = "QPdfDocument" THEN [raised |-> "", value |-> src]
    ELSE IF src.py = "str"
    THEN [raised |-> "", value |-> QPdfLoad(QPdfDocumentNew, src.s)]
    ELSE [raised |-> "NameError", value |-> NoneV]

Load(src) ==
    /\ \E r \in {load(src)} :
          ldres' = [op |-> "load", arg |-> src, raised |-> r.raised,
                    value |-> r.value, pages |-> <<>>]
    /\ UNCHANGED <<source, document_, renderVars, printVars, handleVars,
                   optVars, pageVars, drawVars, linkVars>>

\* PdfPage.load(filename): cls.loadDocument(doc, renderer) if doc else ()
PageLoad(src) ==
    /\ \E r \in {load(src)} :
          ldres' = [op |-> "PdfPage.load", arg |-> src, raised |-> r.raised,
                    value |-> r.value,
                    pages |-> IF r.raised = "" /\ Truthy(r.value)
                              THEN loadDocument(r.value, NoneV).pages
                              ELSE <<>>]
    /\ UNCHANGED <<source, document_, renderVars, printVars, handleVars,
                   optVars, pageVars, drawVars, linkVars>>

\* PdfDocument.document(): loads the source on first use and keeps the
\* result in _document; an exception of load() leaves _document None.
Document ==
    /\ \E r \in {IF document_ = NoneV /\ Truthy(source)
                 THEN load(source)
                 ELSE [raised |-> "", value |-> document_]} :
          /\ document_' = IF r.raised # "" THEN document_
                          ELSE IF document_ = NoneV /\ Truthy(source)
                          THEN (IF Truthy(r.value) THEN r.value ELSE FalseV)
                          ELSE document_
          /\ ldres' = [op |-> "document", arg |-> source,
                       raised |-> r.raised,
                       value |-> IF r.raised # "" THEN NoneV ELSE document_',
                       pages |-> <<>>]
    /\ UNCHANGED <<source, renderVars, printVars, handleVars, optVars,
                   pageVars, drawVars, linkVars>>

\* PdfDocument.invalidate(): the document reference is cleared.
Invalidate ==
    /\ document_' = NoneV
    /\ UNCHANGED <<source, ldres, renderVars, printVars, handleVars, optVars,
                   pageVars, drawVars, linkVars>>

(***************************************************************************)
(* The inputs and the environment of the printing calls.                   *)
(***************************************************************************)
\* All lists of at most n elements of S.
Lists(S, n) == UNION {[1..k -> S] : k \in 0..n}

\* File names: "a", "d/b", "-", " " and "".
PrintNames == {<<"a">>, <<"d", "/", "b">>, <<"-">>, <<" ">>, <<>>}
\* File names a title is computed from: "a", "d/b", "/c/" and "".
TitleNames == {<<"a">>, <<"d", "/", "b">>, <<"/", "c", "/">>, <<>>}

OfficePrinter ==
    [py |-> "QPrinter", name |-> "office", cups |-> [copies |-> "1"]]

\* cups.IPPError(status, message) raised by connection.printFile, or success.
IppOk == [ok |-> TRUE]
IPPError(st, msg) == [ok |-> FALSE, status |-> st, message |-> msg]
IppErrorOf(f) ==
    IF f = <<"a">> THEN IPPError(1030, "client-error-not-found")
    ELSE IPPError(1034, "client-error-document-format-not-supported")
\* The server's answers to the submissions of filenames: any set of them is
\* rejected.
IppEnvs(filenames) ==
    {[i \in 1..Len(filenames) |->
         IF i \in R THEN IppErrorOf(filenames[i]) ELSE IppOk]
     : R \in SUBSET (1..Len(filenames))}

\* subprocess.Popen raises OSError(errno, strerror), or the process runs and
\* ends with a return code and bytes on standard error.
CmdEnvs ==
    {[launch |-> "OSError", errno |-> 2,
      strerror |-> "No such file or directory"],
     [launch |-> "OSError", errno |-> 13, strerror |-> "Permission denied"]}
    \cup {[launch |-> "ok", returncode |-> rc, stderr |-> b] :
             rc \in {0, 1}, b \in {<<>>, <<195, 169>>, <<255, 65>>}}

\* What may happen in the backend of a handle of class kind; nothing when
\* printFiles does not get as far as the backend.
Envs(kind, filenames) ==
    IF filenames = <<>> \/ \E i \in DOMAIN filenames : ~ValidName(filenames[i])
    THEN {NoneV}
    ELSE CASE kind = "IppHandle" -> IppEnvs(filenames)
           [] kind = "CmdHandle" -> CmdEnvs
           [] OTHER              -> {NoneV}

(***************************************************************************)
(* Initial values of each group of variables.                              *)
(***************************************************************************)
RenderInit ==
    /\ pc = [t \in Threads |-> "idle"]
    /\ job = [t \in Threads |-> NoneV]
    /\ held = {}

PrintInit ==
    /\ hkind \in {"Handle", "IppHandle", "CmdHandle"}
    /\ self \in {[_printer |-> NoneV], [_printer |-> OfficePrinter]}
    /\ call = NoneV
    /\ queue = <<>>

PrintIdle ==
    /\ hkind = "Handle"
    /\ self = [_printer |-> NoneV]
    /\ call = NoneV
    /\ queue = <<>>

HandleInit == hres = NoneV

LoadInit ==
    /\ source = NoneV
    /\ document_ = NoneV
    /\ ldres = NoneV

OptInit ==
    /\ opts = <<>>
    /\ optsIn = <<>>
    /\ cleared = FALSE

PageInit == pgres = NoneV
DrawInit == drres = NoneV
LinkInit == linkscache = {}

(***************************************************************************)
(* Specifications.                                                         *)
(***************************************************************************)
\* Rendering threads.
Init ==
    /\ RenderInit /\ PrintIdle /\ HandleInit /\ LoadInit /\ OptInit
    /\ PageInit /\ DrawInit /\ LinkInit
Next == RenderNext
Spec == Init /\ [][Next]_vars

\* A handle of any class printing lists of files, call after call.
InitPrint ==
    RenderInit /\ PrintInit /\ HandleInit /\ LoadInit /\ OptInit /\ PageInit
    /\ DrawInit /\ LinkInit
NextPrint ==
    \/ /\ Len(queue) < MaxQueue
       /\ \E fs \in Lists(PrintNames, MaxFiles) : \E env \in Envs(hkind, fs) :
              PrintFiles(fs, NoneV, NoneV, env)
    \/ /\ Len(queue) < MaxQueue
       /\ \E f \in PrintNames : \E env \in Envs(hkind, <<f>>) :
              PrintFile(f, NoneV, NoneV, env)
SpecPrint == InitPrint /\ [][NextPrint]_vars

\* One printFiles call of a base Handle, with and without a title.
TitleArgs == {NoneV, Str(<<>>), Str(<<"T">>)}
OptionArgs == {NoneV, Dict([copies |-> "2", sides |-> "one-sided"])}
NextTitle ==
    /\ call = NoneV
    /\ \E fs \in Lists(TitleNames, MaxTitleFiles), t \in TitleArgs,
          o \in OptionArgs : PrintFiles(fs, t, o, NoneV)
SpecTitle == Init /\ [][NextTitle]_vars

\* handle() called on any system.
HandleEnvs ==
    [cups : BOOLEAN, connects : BOOLEAN,
     printers : SUBSET {"default", "office"},
     which : {NoneV, Str(<<"/", "l", "p">>)}]
NextHandle ==
    \E pr \in {NoneV, OfficePrinter}, server \in {"", "host"},
       port \in {0, 631}, env \in HandleEnvs :
        HandleCall(pr, server, port, "", env)
SpecHandle == Init /\ [][NextHandle]_vars

\* load(), PdfPage.load() and the document() of a PdfDocument made with any
\* source: nothing, "", the loadable file "g", the file "x" that cannot be
\* loaded, a QPdfDocument, a QByteArray, an int.
GivenDoc ==
    [py |-> "QPdfDocument", id |-> "given", status |-> "Ready",
     pageCount |-> NumPages]
Sources ==
    {NoneV, Str(<<>>), Str(<<"g">>), Str(<<"x">>), GivenDoc,
     [py |-> "QByteArray", data |-> "%PDF"], PyInt(42)}
InitLoad ==
    /\ RenderInit /\ PrintIdle /\ HandleInit /\ OptInit /\ PageInit
    /\ DrawInit /\ LinkInit
    /\ source \in Sources
    /\ document_ = NoneV
    /\ ldres = NoneV
NextLoad ==
    \/ \E src \in Sources : Load(src)
    \/ \E src \in Sources : PageLoad(src)
    \/ Document
    \/ Invalidate
SpecLoad == InitLoad /\ [][NextLoad]_vars

\* clearPageSetSetting on a printer holding any option list.
OptStrings == {"page-set", "even", "media"}
InitOpts ==
    /\ RenderInit /\ PrintIdle /\ HandleInit /\ LoadInit /\ PageInit
    /\ DrawInit /\ LinkInit
    /\ opts \in Lists(OptStrings, MaxOptLen)
    /\ optsIn = opts
    /\ cleared = FALSE
NextOpts == ClearPageSetSetting
SpecOpts == InitOpts /\ [][NextOpts]_vars

\* One loadDocument call on a document of any size, with any pageSlice.
OptInts(m) == {NoneV} \cup {PyInt(v) : v \in (0 - m)..m}
Slices ==
    {slice(a, b, c) : a \in OptInts(MaxSliceIndex),
                      b \in OptInts(MaxSliceIndex), c \in OptInts(MaxStep)}
DocOf(n) ==
    [py |-> "QPdfDocument", id |-> "given", status |-> "Ready",
     pageCount |-> n]
NextPages ==
    /\ pgres = NoneV
    /\ \E n \in 0..MaxPageCount, sl \in Slices \cup {NoneV} :
          LoadDocument(DocOf(n), sl)
SpecPages == Init /\ [][NextPages]_vars

\* One draw call for any page size, key, tile inside the key and painter.
PageExtents == 2..MaxPageExtent
Keys == [rotation : 0..3, width : 1..MaxKeyExtent, height : 1..MaxKeyExtent]
Tiles(key) ==
    {<<x, y, key.width - x, key.height - y>> :
        x \in 0..Min(1, key.width - 1), y \in 0..Min(1, key.height - 1)}
NextDraw ==
    /\ drres = NoneV
    /\ \E pw, ph \in PageExtents, key \in Keys, sx, sy \in 1..MaxScale :
         \E tile \in Tiles(key) :
            DrawTile(QSizeF(pw, ph), key, tile,
                     deviceTransform(key.rotation, sx, sy))
SpecDraw == Init /\ [][NextDraw]_vars

\* Threads that render pages, read their text and read their links, in any
\* interleaving, on two pages of one document and a page of another. A with
\* block that was entered is left again: the calls into the document return.
Clients == 1..NumClients
NativePages ==
    {page \in PdfPage : /\ page.document <= 2
                         /\ page.document + page.pageNumber <= 2}
NextNative ==
    \/ \E t \in Clients, page \in NativePages : Draw(t, page)
    \/ \E t \in Clients : Acquire(t)
    \/ \E t \in Clients : RenderEndPaint(t)
    \/ \E t \in Clients : Return(t)
    \/ \E t \in Clients, page \in NativePages : Text(t, page)
    \/ \E t \in Clients : TextAcquire(t)
    \/ \E t \in Clients : TextReturn(t)
    \/ \E t \in Clients, page \in NativePages : Links(t, page)
    \/ \E t \in Clients : LinksAcquire(t)
    \/ \E t \in Clients : LinksRelease(t)
    \/ \E t \in Clients : LinksStore(t)
    \/ \E t \in Clients : LinksCached(t)
SpecNative ==
    Init /\ [][NextNative]_vars /\ \A t \in Clients : WF_vars(Leave(t))

InLock(t) == pc[t] \in {"render", "paint"}

(***************************************************************************)
(* C1: at no moment are two native renders (doc.render) in progress for    *)
(* pages of the same document handle, and every thread inside the locked   *)
(* region of _render_image holds the lock of the object PdfPage.mutex()    *)
(* names, the page's document.                                             *)
(***************************************************************************)
C1_NoConcurrentRenderOfOneDocument ==
    /\ \A t1, t2 \in Threads :
          (t1 # t2 /\ pc[t1] = "render" /\ pc[t2] = "render")
              => job[t1].doc # job[t2].doc
    /\ \A t \in Threads : InLock(t) => <<mutex(PageOf(job[t])), t>> \in held

\* Two documents are rendered at the same moment while a third thread waits
\* for the lock of one of them to render another page of it.
C1_Witness ==
    \E t1, t2, t3 \in Threads :
        /\ pc[t1] = "render" /\ pc[t2] = "render" /\ pc[t3] = "lock"
        /\ job[t1].doc # job[t2].doc
        /\ job[t3].doc = job[t1].doc /\ job[t3].pageNum # job[t1].pageNum

\* A filename printFiles refuses: empty, blank, or "-".
BadName(f) ==
    f = <<>> \/ f = <<"-">> \/ (f # <<>> /\ \A i \in DOMAIN f : f[i] = " ")

ExpectedStatusError ==
    IF call.filenames = <<>> THEN <<2, "No filenames specified">>
    ELSE IF \E i \in DOMAIN call.filenames : BadName(call.filenames[i])
    THEN <<2, "Not a valid filename">>
    ELSE LET r == DoPrintFiles(hkind, call.filenames, call.env, call.queueBefore)
         IN  <<r.status, r.error>>

(***************************************************************************)
(* C2: after every printFiles / printFile call the returned boolean is     *)
(* True exactly when the status attribute is 0, and status and error are   *)
(* the return code and message of this call: (2, "No filenames specified") *)
(* for an empty list, (2, "Not a valid filename") when a name is empty,    *)
(* blank or "-", and else what the backend returned for this call.         *)
(***************************************************************************)
C2_StatusErrorOfThisCall ==
    call # NoneV =>
        /\ DOMAIN self = {"_printer", "status", "error"}
        /\ call.returned <=> (self.status = 0)
        /\ <<self.status, self.error>> = ExpectedStatusError

\* A call that failed on its filenames after an earlier call had submitted
\* jobs: status and error are those of the failed call.
C2_Witness ==
    /\ call # NoneV
    /\ call.backendCalls = 0
    /\ Len(call.queueBefore) > 0
    /\ self.status = 2 /\ ~call.returned

Rejected == {i \in DOMAIN call.env : ~call.env[i].ok}
FirstRejected == CHOOSE i \in Rejected : \A j \in Rejected : i <= j

(***************************************************************************)
(* C3: no retry and no recovery. One printFiles call runs the backend at   *)
(* most once. IppHandle submits the files in list order, each position at  *)
(* most once; at the first IPPError it stops and returns that error's      *)
(* (status, message); the files before it stay submitted, the files after  *)
(* it are not submitted; (0, "") is returned only when all were accepted.  *)
(***************************************************************************)
C3_IppStopsAtFirstError ==
    (hkind = "IppHandle" /\ call # NoneV) =>
        /\ call.backendCalls \in {0, 1}
        /\ call.backendCalls = 0 =>
              queue = call.queueBefore /\ call.attempts = <<>>
        /\ (call.backendCalls = 1 /\ Rejected = {}) =>
              /\ call.attempts = [i \in 1..Len(call.filenames) |-> i]
              /\ queue = call.queueBefore \o call.filenames
              /\ self.status = 0 /\ self.error = ""
        /\ (call.backendCalls = 1 /\ Rejected # {}) =>
              /\ call.attempts = [i \in 1..FirstRejected |-> i]
              /\ queue = call.queueBefore
                         \o SubSeq(call.filenames, 1, FirstRejected - 1)
              /\ self.status = call.env[FirstRejected].status
              /\ self.error = call.env[FirstRejected].message
              /\ self.status # 0

\* The server accepted the first file and rejected the second: the first
\* stays queued and the call reports the second file's error.
C3_Witness ==
    /\ hkind = "IppHandle" /\ call # NoneV /\ call.backendCalls = 1
    /\ Len(call.filenames) >= 2
    /\ call.env[1].ok /\ ~call.env[2].ok
    /\ queue = Append(call.queueBefore, call.filenames[1])
    /\ self.status = call.env[2].status

(***************************************************************************)
(* C4: CmdHandle. When the command cannot be started (OSError) status is   *)
(* the OS error number, error the OS error string and the call returns     *)
(* False; when it ran, status is its exit code and error its decoded       *)
(* standard error. The call returns True exactly when the command ran and  *)
(* exited with 0, whatever it wrote to standard error.                     *)
(***************************************************************************)
C4_CmdStatus ==
    (hkind = "CmdHandle" /\ call # NoneV) =>
        /\ (call.backendCalls = 1 /\ call.env.launch = "OSError") =>
              /\ self.status = call.env.errno
              /\ self.error = call.env.strerror
              /\ ~call.returned
        /\ (call.backendCalls = 1 /\ call.env.launch = "ok") =>
              /\ self.status = call.env.returncode
              /\ self.error = decode(call.env.stderr)
              /\ call.env.stderr = <<195, 169>> => self.error = <<233>>
              /\ call.env.stderr = <<255, 65>> => self.error = <<65533, 65>>
        /\ call.returned <=>
              (call.backendCalls = 1 /\ call.env.launch = "ok"
               /\ call.env.returncode = 0)

\* The command ran, wrote to standard error and exited with 0: success.
C4_Witness ==
    /\ hkind = "CmdHandle" /\ call # NoneV /\ call.backendCalls = 1
    /\ call.env.launch = "ok" /\ call.env.returncode = 0
    /\ call.env.stderr # <<>>
    /\ call.returned /\ self.error # <<>>

\* The command could not be started.
C4_WitnessOSError ==
    /\ hkind = "CmdHandle" /\ call # NoneV /\ call.backendCalls = 1
    /\ call.env.launch = "OSError" /\ ~call.returned

IppAvailable ==
    /\ hres.env.cups
    /\ hres.env.connects
    /\ (IF hres.printer = NoneV THEN DefaultQPrinter.name
        ELSE hres.printer.name) \in hres.env.printers
CmdAvailable == hres.env.which # NoneV

(***************************************************************************)
(* C5: handle() returns the first available handle: the IppHandle when the *)
(* cups module can be imported, the connection is made and the printer's   *)
(* name is among the server's printers, and then CmdHandle.create is not   *)
(* tried; else the CmdHandle when the command is found; else None.         *)
(***************************************************************************)
C5_FirstAvailableHandle ==
    hres # NoneV =>
        /\ IppAvailable =>
              /\ hres.result.py = "IppHandle"
              /\ hres.tried = <<"IppHandle.create">>
        /\ (~IppAvailable /\ CmdAvailable) =>
              /\ hres.result.py = "CmdHandle"
              /\ hres.tried = <<"IppHandle.create", "CmdHandle.create">>
        /\ (~IppAvailable /\ ~CmdAvailable) =>
              /\ hres.result = NoneV
              /\ ~Truthy(hres.result)
              /\ hres.tried = <<"IppHandle.create", "CmdHandle.create">>

\* Both handles are available and the IppHandle is the one returned.
C5_Witness ==
    /\ hres # NoneV
    /\ IppAvailable /\ CmdAvailable
    /\ hres.result.py = "IppHandle"

\* The server does not know the printer, lp is found: the CmdHandle.
C5_WitnessFallback ==
    /\ hres # NoneV
    /\ hres.env.cups /\ hres.env.connects /\ ~IppAvailable /\ CmdAvailable
    /\ hres.result.py = "CmdHandle"

\* The sources that can be loaded: a QPdfDocument, the PDF file "g", and a
\* QByteArray holding a PDF.
CanBeLoaded(src) ==
    src.py = "QPdfDocument" \/ src = Str(<<"g">>) \/ src.py = "QByteArray"

(***************************************************************************)
(* C6: PdfDocument.document() returns None if no source was yet set,       *)
(* False if loading the source failed, and otherwise the loaded            *)
(* QPdfDocument object.                                                    *)
(***************************************************************************)
C6_DocumentNoneFalseOrLoaded ==
    (ldres # NoneV /\ ldres.op = "document") =>
        /\ ldres.raised = ""
        /\ ~Truthy(source) => ldres.value = NoneV
        /\ (Truthy(source) /\ ~CanBeLoaded(source)) => ldres.value = FalseV
        /\ (Truthy(source) /\ CanBeLoaded(source)) =>
              /\ ldres.value.py = "QPdfDocument"
              /\ ldres.value.status = "Ready"

(***************************************************************************)
(* C7: load(source) returns a QPdfDocument source unchanged, accepts a     *)
(* filename or a QByteArray, and returns None when the document could not  *)
(* be loaded and for a source of any other type; so PdfPage.load yields no *)
(* pages when the document could not be loaded.                            *)
(***************************************************************************)
C7_LoadReturnsNoneOnFailure ==
    (ldres # NoneV /\ ldres.op \in {"load", "PdfPage.load"}) =>
        /\ ldres.raised = ""
        /\ ldres.arg.py = "QPdfDocument" => ldres.value = ldres.arg
        /\ (ldres.arg.py # "QPdfDocument" /\ CanBeLoaded(ldres.arg)) =>
              /\ ldres.value.py = "QPdfDocument"
              /\ ldres.value.status = "Ready"
        /\ ~CanBeLoaded(ldres.arg) => ldres.value = NoneV
        /\ (ldres.op = "PdfPage.load" /\ ~CanBeLoaded(ldres.arg)) =>
              ldres.pages = <<>>

\* o without the pairs whose key is 'page-set'.
RECURSIVE WithoutPageSet(_)
WithoutPageSet(o) ==
    IF Len(o) < 2 THEN o
    ELSE IF o[1] = "page-set" THEN WithoutPageSet(SubSeq(o, 3, Len(o)))
    ELSE <<o[1], o[2]>> \o WithoutPageSet(SubSeq(o, 3, Len(o)))

(***************************************************************************)
(* C8: for every even-length option list, after clearPageSetSetting the    *)
(* list has no key 'page-set', every other key/value pair is kept in its   *)
(* original order, and a list without the key is left unchanged.           *)
(***************************************************************************)
C8_PageSetRemoved ==
    (cleared /\ Len(optsIn) % 2 = 0) =>
        /\ \A k \in 1..Len(opts) : k % 2 = 1 => opts[k] # "page-set"
        /\ opts = WithoutPageSet(optsIn)
        /\ (\A k \in 1..Len(optsIn) : k % 2 = 1 => optsIn[k] # "page-set")
              => opts = optsIn

\* The first k items, each but the first preceded by ", ".
RECURSIVE CommaSeparated(_, _)
CommaSeparated(items, k) ==
    IF k = 0 THEN <<>>
    ELSE IF k = 1 THEN items[1]
    ELSE CommaSeparated(items, k - 1) \o <<",", " ">> \o items[k]

MoreItem(N) ==
    <<"(", "+">>
    \o (IF N < 10 THEN <<>> ELSE <<Digit(N \div 10)>>) \o <<Digit(N % 10)>>
    \o <<" ", "m", "o", "r", "e", ")">>

ExpectedTitle(fs) ==
    LET names == [i \in 1..Len(fs) |-> basename(fs[i])]
    IN  IF Len(fs) <= 5 THEN CommaSeparated(names, Len(fs))
        ELSE CommaSeparated(names, 5) \o <<",", " ">> \o MoreItem(Len(fs) - 5)

(***************************************************************************)
(* C9: without a title (None or "") the job title given to the backend is  *)
(* the basenames of the first 5 filenames joined by ", ", followed by the  *)
(* item "(+N more)", N = number of filenames - 5, exactly when there are   *)
(* more than 5 filenames; for one file it is that file's basename. A       *)
(* non-empty title is given to the backend unchanged.                      *)
(***************************************************************************)
C9_JobTitle ==
    (call # NoneV /\ call.backendCalls = 1) =>
        /\ Truthy(call.title) => call.passed.title = call.title
        /\ ~Truthy(call.title) =>
              /\ call.passed.title.py = "str"
              /\ Len(call.filenames) = 1 =>
                    call.passed.title.s = basename(call.filenames[1])
              /\ call.passed.title.s = ExpectedTitle(call.filenames)

\* Six files and no title: the title is "b, a, a, a, a, (+1 more)".
C9_Witness ==
    /\ call # NoneV /\ call.backendCalls = 1 /\ call.title = NoneV
    /\ call.filenames = <<<<"d", "/", "b">>, <<"a">>, <<"a">>, <<"a">>,
                          <<"a">>, <<"/", "c", "/">>>>
    /\ call.passed.title.s =
          <<"b", ",", " ", "a", ",", " ", "a", ",", " ", "a", ",", " ", "a",
            ",", " ", "(", "+", "1", " ", "m", "o", "r", "e", ")">>

Max(a, b) == IF a > b THEN a ELSE b
StepOf(sl) == IF sl.step = NoneV THEN 1 ELSE sl.step.v

\* The page numbers a slice selects out of 0 .. n-1.
Selected(sl, n) ==
    IF StepOf(sl) > 0
    THEN LET lo == IF sl.start = NoneV THEN 0
                   ELSE IF sl.start.v < 0 THEN Max(sl.start.v + n, 0)
                   ELSE sl.start.v
             hi == IF sl.stop = NoneV THEN n
                   ELSE IF sl.stop.v < 0 THEN sl.stop.v + n
                   ELSE sl.stop.v
         IN  {k \in 0..(n - 1) :
                 lo <= k /\ k < hi /\ (k - lo) % StepOf(sl) = 0}
    ELSE LET first == IF sl.start = NoneV THEN n - 1
                      ELSE IF sl.start.v < 0 THEN sl.start.v + n
                      ELSE Min(sl.start.v, n - 1)
             bound == IF sl.stop = NoneV THEN -1
                      ELSE IF sl.stop.v < 0 THEN Max(sl.stop.v + n, -1)
                      ELSE sl.stop.v
         IN  {k \in 0..(n - 1) :
                 k <= first /\ k > bound
                 /\ (first - k) % (0 - StepOf(sl)) = 0}

PageNumbers == [i \in 1..Len(pgres.pages) |-> pgres.pages[i].pageNumber]

C10_WitnessAll ==
    /\ pgres # NoneV
    /\ pgres.document.pageCount = 3
    /\ pgres.pageSlice = NoneV
    /\ PageNumbers = <<0, 1, 2>>

\* The effective resolution 72 * extent / pageExtent is strictly below 96.
BelowThreshold(extent, pageExtent) == 72 * extent < 96 * pageExtent

\* The page size draw has to use: width and height swapped for an odd
\* key.rotation.
PageSizeUsed ==
    IF drres.key.rotation \in {1, 3}
    THEN [w |-> drres.pageSize.h, h |-> drres.pageSize.w]
    ELSE drres.pageSize

(***************************************************************************)
(* C11: the oversampling decision of PdfRenderer.draw. At actual size     *)
(* (both scale factors of the device transform are 1) the horizontal       *)
(* multiplier is 2 exactly when 72 * key.width / pageWidth is strictly     *)
(* below 96, else 1, and likewise vertically with key.height and           *)
(* pageHeight, the page width and height being swapped for an odd          *)
(* key.rotation, and the page is rendered at key size times the            *)
(* multipliers; when not at actual size both multipliers are 1. An image   *)
(* whose size differs from the target is scaled to the target size, never  *)
(* enlarging it, at actual size only; otherwise the image is left as it is.*)
(***************************************************************************)
C11_OversamplingDecision ==
    drres # NoneV =>
        LET key == drres.key
            r   == drres.result
            atActualSize == drres.matrix.m11 = 1 /\ drres.matrix.m22 = 1
        IN  /\ r.pageSize = PageSizeUsed
            /\ atActualSize =>
                  /\ r.xMultiplier =
                        IF BelowThreshold(key.width, PageSizeUsed.w)
                        THEN 2 ELSE 1
                  /\ r.yMultiplier =
                        IF BelowThreshold(key.height, PageSizeUsed.h)
                        THEN 2 ELSE 1
                  /\ r.rendered = [w |-> key.width * r.xMultiplier,
                                   h |-> key.height * r.yMultiplier]
            /\ ~atActualSize => r.xMultiplier = 1 /\ r.yMultiplier = 1
            /\ r.scaled <=> (atActualSize /\ r.cropped # r.target)
            /\ r.scaled =>
                  /\ r.image = r.target
                  /\ r.image.w <= r.cropped.w /\ r.image.h <= r.cropped.h
            /\ ~r.scaled => r.image = r.cropped

\* At actual size, a key whose horizontal resolution is exactly 96 and whose
\* vertical resolution is below it: rendered at double height only, then
\* scaled to the target.
C11_Witness ==
    /\ drres # NoneV
    /\ drres.result.actualSize
    /\ 72 * drres.key.width = 96 * drres.pageSize.w
    /\ drres.result.xMultiplier = 1 /\ drres.result.yMultiplier = 2
    /\ drres.result.scaled
    /\ drres.result.image.h < drres.result.rendered.h

\* Printing a page turned by a quarter: no oversampling and no scaling,
\* though the resolution is below 96 and the image differs from the target.
C11_WitnessPrinting ==
    /\ drres # NoneV
    /\ drres.key.rotation = 1
    /\ ~drres.result.actualSize
    /\ BelowThreshold(drres.key.width, PageSizeUsed.w)
    /\ drres.result.xMultiplier = 1
    /\ drres.result.cropped # drres.result.target
    /\ ~drres.result.scaled

\* Thread t is inside a call into its document: doc.render, getSelection,
\* or making and reading the link model.
NativeCall(t) == pc[t] \in {"render", "getSelection", "linkModel"}

\* Thread t is inside one of the three with blocks.
InWith(t) == pc[t] \in {"render", "paint", "getSelection", "linkModel"}

\* Thread t waits at one of the three with statements.
Waiting(t) == pc[t] \in {"lock", "textLock", "linksLock"}

\* No two calls into one document at once; a thread inside a with block
\* holds the lock of its page's document (the lock rendering uses); and no
\* lock is held but by a thread inside its with block.
ExclusivePerDocument ==
    /\ \A t1, t2 \in Threads :
          (t1 # t2 /\ NativeCall(t1) /\ NativeCall(t2))
              => job[t1].doc # job[t2].doc
    /\ \A t \in Threads : InWith(t) => <<mutex(PageOf(job[t])), t>> \in held
    /\ \A h \in held : InWith(h[2]) /\ h[1] = mutex(PageOf(job[h[2]]))

(***************************************************************************)
(* C12: PdfPage.text() and the link-model construction of PdfPage.links()  *)
(* call into the document while holding the per-document lock rendering    *)
(* uses: in every interleaving no two of render, text extraction and link  *)
(* building are in progress on one document at once. The lock is held only *)
(* inside the with block and is released when the block is left; every     *)
(* with block that was entered is left again, and an operation that waits  *)
(* for a document's lock gets to a moment where it can take it.            *)
(***************************************************************************)
C12_TextLinksRenderExclusive ==
    /\ []ExclusivePerDocument
    /\ \A t \in Clients : InWith(t) ~> ~InWith(t)
    /\ \A t \in Clients :
          Waiting(t) ~> (Waiting(t) /\ LockAvailable(mutex(PageOf(job[t])), t))

\* text() reads a page while links() waits for the same document.
C12_Witness ==
    \E t1, t2 \in Clients :
        /\ pc[t1] = "getSelection" /\ pc[t2] = "linksLock"
        /\ job[t1].doc = job[t2].doc
        /\ ~LockAvailable(mutex(PageOf(job[t2])), t2)

\* The links of a page are built while a render of another page of the
\* document waits, links of the document having been cached before.
C12_WitnessLinksRender ==
    \E t1, t2 \in Clients :
        /\ pc[t1] = "linkModel" /\ pc[t2] = "lock"
        /\ job[t1].doc = job[t2].doc /\ job[t1].pageNum # job[t2].pageNum
        /\ linkscache # {}

\* Two documents are used at once: text of one, links of the other.
C12_WitnessTwoDocuments ==
    \E t1, t2 \in Clients :
        /\ pc[t1] = "getSelection" /\ pc[t2] = "linkModel"
        /\ job[t1].doc # job[t2].doc

=============================================================================
